---- MODULE Spec2Model ----
(***************************************************************************)
(* Model of clean_signup_data (src/cleanup.py): the three passes over the  *)
(* signup table (date standardisation, duplicate-email resolution,         *)
(* validation), the partition into clean / quarantined output and a second *)
(* run of the pipeline on the clean output of the first.                   *)
(*                                                                         *)
(* Strings are sequences of one-character strings.  Row labels are the     *)
(* positions 1..Len(df) (pandas uses 0..n-1 for the default RangeIndex).   *)
(***************************************************************************)
EXTENDS Integers, Sequences, FiniteSets, TLC

\* Largest number of rows of the input table.
MaxRows == 2

----------------------------------------------------------------------------
\* Cell values

\* A missing cell (NaN as read by pandas from an empty spreadsheet cell).
NaN == <<"NaN">>

\* pd.isna on a text cell.
isna(v) == v = NaN

\* str(v): a missing cell prints as 'nan'.
str(v) == IF isna(v) THEN <<"n", "a", "n">> ELSE v

\* str.lower, one character.
lowerChar(c) ==
    CASE c = "A" -> "a"
      [] c = "B" -> "b"
      [] c = "T" -> "t"
      [] c = "U" -> "u"
      [] OTHER -> c

\* str.lower
lower(s) == [k \in 1..Len(s) |-> lowerChar(s[k])]

RECURSIVE lstrip(_)
lstrip(s) == IF s # <<>> /\ Head(s) = " " THEN lstrip(Tail(s)) ELSE s

RECURSIVE rstrip(_)
rstrip(s) ==
    IF s # <<>> /\ s[Len(s)] = " " THEN rstrip(SubSeq(s, 1, Len(s) - 1)) ELSE s

\* str.strip
strip(s) == rstrip(lstrip(s))

\* sub in s (substring test)
contains(sub, s) ==
    \E k \in 0..(Len(s) - Len(sub)) : SubSeq(s, k + 1, k + Len(sub)) = sub

\* Position of the first occurrence of character c in s, 0 if none.
RECURSIVE find(_, _, _)
find(s, c, k) ==
    IF k > Len(s) THEN 0 ELSE IF s[k] = c THEN k ELSE find(s, c, k + 1)

\* s.split(c): the list of the pieces of s between occurrences of c.
RECURSIVE split(_, _)
split(s, c) ==
    LET p == find(s, c, 1)
    IN  IF p = 0 THEN <<s>>
        ELSE <<SubSeq(s, 1, p - 1)>> \o split(SubSeq(s, p + 1, Len(s)), c)

\* x in lst, for a list
inList(x, lst) == \E k \in 1..Len(lst) : lst[k] = x

----------------------------------------------------------------------------
\* Dates

\* A signup_date cell: the format it is written in and the calendar fields.
RawDate(f, y, m, d) == [fmt |-> f, y |-> y, m |-> m, d |-> d]

\* NaT, the failed parse
NaT == [y |-> 0, m |-> 0, d |-> 0]

\* The value of signup_date_standardized before it is set.
None == RawDate("None", 0, 0, 0)

\* pd.to_datetime(cell, errors='coerce'): the timestamp of a cell written in
\* a calendar format with a valid month and day, NaT for anything else.
to_datetime(cell) ==
    IF cell.fmt \in {"iso", "us"} /\ cell.m \in 1..12 /\ cell.d \in 1..31
    THEN [y |-> cell.y, m |-> cell.m, d |-> cell.d]
    ELSE NaT

\* A formatter that swaps month and day ('%Y-%d-%m').
strftimeSwapped(ts) == RawDate("iso", ts.y, ts.d, ts.m)

\* parsed_date.strftime('%Y-%m-%d')
strftime(ts) == RawDate("iso", ts.y, ts.m, ts.d)

\* datetime.strptime(date_str, '%Y-%m-%d')
strptime(date_str) == [y |-> date_str.y, m |-> date_str.m, d |-> date_str.d]

\* date_obj > most_recent_date
After(a, b) ==
    \/ a.y > b.y
    \/ a.y = b.y /\ a.m > b.m
    \/ a.y = b.y /\ a.m = b.m /\ a.d > b.d

----------------------------------------------------------------------------
\* Inputs

Names ==
    { <<"B", "o", "b">>,
      <<"T", "e", "s", "t", " ", "U">>,
      NaN }

\* The raw email values, in the order groupby sorts its keys.
EmailOrder ==
    << <<" ", "A", "@", "b", "@", ".">>,
       <<"a", "@", "b", ".", "c">>,
       <<"a", "b">> >>

Emails == { EmailOrder[k] : k \in 1..Len(EmailOrder) } \cup { NaN }

Dates ==
    { RawDate("iso", 2023, 1, 1),
      RawDate("us", 2023, 6, 15),
      RawDate("junk", 0, 0, 0) }

\* A row as read from the file, with the metadata columns of lines 27-36.
Row(n, e, d) ==
    [name |-> n, email |-> e, signup_date |-> d,
     is_multi_plan |-> FALSE, signup_date_standardized |-> None]

InputRows == { Row(n, e, d) : n \in Names, e \in Emails, d \in Dates }

RECURSIVE Tables(_)
Tables(n) ==
    IF n = 0 THEN { <<>> }
    ELSE { Append(t, r) : t \in Tables(n - 1), r \in InputRows }

----------------------------------------------------------------------------
\* State

VARIABLES
    df,                  \* the table being processed
    quarantined_records, \* list of quarantined row labels
    reason,              \* per row, the check that quarantined it ("" if none)
    pc,                  \* the pass the function is in
    i,                   \* loop position inside the pass
    clean_indices,       \* labels of the clean rows
    clean_df,            \* clean output
    quarantined_df,      \* quarantined output
    summary,             \* summary counts
    run,                 \* 1: first run, 2: run on the first run's clean output
    first_clean          \* clean output of the first run

vars == <<df, quarantined_records, reason, pc, i, clean_indices, clean_df,
          quarantined_df, summary, run, first_clean>>

NoSummary == [total_rows |-> 0, clean_rows |-> 0, quarantined_rows |-> 0]

\* Set of the members of a list
Members(lst) == { lst[k] : k \in 1..Len(lst) }

----------------------------------------------------------------------------
\* Pass 1: date standardisation

\* The quarantine list after the date loop body forgot the failed parse.
DateQuarantineNever(q, idx, parsed) == q

\* The quarantine list after the date loop body for row idx.
DateQuarantine(q, idx, parsed) == IF parsed = NaT THEN Append(q, idx) ELSE q

\* The standardized date written by the date loop body.
DateStandardized(parsed) == IF parsed = NaT THEN None ELSE strftime(parsed)

----------------------------------------------------------------------------
\* Pass 2: duplicate resolution

\* df.groupby('email').groups: the keys, sorted; missing emails are dropped.
email_groups(d) ==
    SelectSeq(EmailOrder, LAMBDA e : \E k \in 1..Len(d) : d[k].email = e)

\* The row labels of one group, ascending.
indices_list(d, e) ==
    SelectSeq([k \in 1..Len(d) |-> k], LAMBDA k : d[k].email = e)

\* The survivor search with >= in place of > (keeps the last of a tie).
RECURSIVE MostRecentLast(_, _, _, _, _)
MostRecentLast(d, q, lst, k, recent) ==
    IF k > Len(lst) THEN recent
    ELSE LET idx == lst[k]
             date_str == d[idx].signup_date_standardized
             take == /\ idx \notin Members(q)
                     /\ date_str # None
                     /\ \/ recent = 0
                        \/ ~After(strptime(d[recent].signup_date_standardized),
                                  strptime(date_str))
         IN  MostRecentLast(d, q, lst, k + 1, IF take THEN idx ELSE recent)

\* The survivor search with < in place of > (keeps the earliest).
RECURSIVE MostRecentEarliest(_, _, _, _, _)
MostRecentEarliest(d, q, lst, k, recent) ==
    IF k > Len(lst) THEN recent
    ELSE LET idx == lst[k]
             date_str == d[idx].signup_date_standardized
             take == /\ idx \notin Members(q)
                     /\ date_str # None
                     /\ \/ recent = 0
                        \/ After(strptime(d[recent].signup_date_standardized),
                                 strptime(date_str))
         IN  MostRecentEarliest(d, q, lst, k + 1, IF take THEN idx ELSE recent)

\* The survivor search: recent_idx after the loop over lst from position k,
\* 0 standing for None.  most_recent_date is the date of row recent.
RECURSIVE MostRecent(_, _, _, _, _)
MostRecent(d, q, lst, k, recent) ==
    IF k > Len(lst) THEN recent
    ELSE LET idx == lst[k]
             date_str == d[idx].signup_date_standardized
             take == /\ idx \notin Members(q)
                     /\ date_str # None
                     /\ \/ recent = 0
                        \/ After(strptime(date_str),
                                 strptime(d[recent].signup_date_standardized))
         IN  MostRecent(d, q, lst, k + 1, IF take THEN idx ELSE recent)

\* The quarantine loop without the membership test.
RECURSIVE QuarantineOthersNoCheck(_, _, _, _)
QuarantineOthersNoCheck(q, lst, k, recent) ==
    IF k > Len(lst) THEN q
    ELSE QuarantineOthersNoCheck(
             IF lst[k] # recent THEN Append(q, lst[k]) ELSE q,
             lst, k + 1, recent)

\* The quarantine list after every member but recent has been appended.
RECURSIVE QuarantineOthers(_, _, _, _)
QuarantineOthers(q, lst, k, recent) ==
    IF k > Len(lst) THEN q
    ELSE QuarantineOthers(
             IF lst[k] # recent /\ lst[k] \notin Members(q)
             THEN Append(q, lst[k]) ELSE q,
             lst, k + 1, recent)

\* A group test that also treats single signups as multiple.
HasMultipleSignupsAny(lst) == Len(lst) > 0

\* len(indices_list) > 1
HasMultipleSignups(lst) == Len(lst) > 1

----------------------------------------------------------------------------
\* Pass 3: validation

\* The email test as written: the list of pieces after the first '@' is
\* searched for an element equal to '.'.
EmailRejected(cell) ==
    LET email == lower(strip(str(cell)))
    IN  \/ email = <<>>
        \/ ~contains(<<"@">>, email)
        \/ ~inList(<<".">>, Tail(split(email, "@")))

test_indicators ==
    { <<"t", "e", "s", "t">>,
      <<"d", "u", "m", "m", "y">>,
      <<"a", "b", "c">>,
      <<"s", "a", "m", "p", "l", "e">>,
      <<"d", "e", "m", "o">>,
      <<"p", "l", "a", "c", "e", "h", "o", "l", "d", "e", "r">> }

\* The name test without lowercasing.
LooksLikeTestCaseSensitive(cell) ==
    \E indicator \in test_indicators : contains(indicator, strip(str(cell)))

\* any(indicator in name for indicator in test_indicators)
LooksLikeTest(cell) ==
    LET name == lower(strip(str(cell)))
    IN  \E indicator \in test_indicators : contains(indicator, name)

\* any important field is missing or blank
MissingField(row) ==
    \/ isna(row.name) \/ strip(str(row.name)) = <<>>
    \/ isna(row.email) \/ strip(str(row.email)) = <<>>
    \/ row.signup_date_standardized = None

\* The check of the validation loop body that quarantines the row, "" if none.
ValidationFailure(row) ==
    IF EmailRejected(row.email) THEN "email"
    ELSE IF LooksLikeTest(row.name) THEN "name"
    ELSE IF MissingField(row) THEN "missing"
    ELSE ""

----------------------------------------------------------------------------
\* Partition and summary

\* clean_indices: not quarantined and with a standardized date, ascending.
CleanIndices(d, q) ==
    SelectSeq([k \in 1..Len(d) |-> k],
              LAMBDA k : k \notin Members(q)
                         /\ d[k].signup_date_standardized # None)

\* An output row: the original columns, is_multi_plan and the standardized
\* date.  The rename of line 126 gives the standardized date the name of the
\* original date column, which is kept too; signup_date_orig names the
\* original one here.
OutRow(row) ==
    [name |-> row.name, email |-> row.email,
     signup_date_orig |-> row.signup_date,
     is_multi_plan |-> row.is_multi_plan,
     signup_date |-> row.signup_date_standardized]

\* df.iloc[labels], as output rows
Select(d, labels) == [k \in 1..Len(labels) |-> OutRow(d[labels[k]])]

----------------------------------------------------------------------------
\* The pass that follows the date pass / the duplicate pass for table d.
AfterDates(d) == IF email_groups(d) = <<>> THEN "validate" ELSE "dups"

Init ==
    /\ df \in UNION { Tables(n) : n \in 1..MaxRows }
    /\ quarantined_records = <<>>
    /\ reason = [k \in 1..Len(df) |-> ""]
    /\ pc = "dates"
    /\ i = 1
    /\ clean_indices = <<>>
    /\ clean_df = <<>>
    /\ quarantined_df = <<>>
    /\ summary = NoSummary
    /\ run = 1
    /\ first_clean = <<>>

\* Lines 37-49: one iteration of the date loop.
StandardizeDate ==
    /\ pc = "dates"
    /\ i <= Len(df)
    /\ LET parsed == to_datetime(df[i].signup_date)
       IN  /\ quarantined_records' = DateQuarantine(quarantined_records, i, parsed)
           /\ df' = [df EXCEPT ![i].signup_date_standardized =
                                   DateStandardized(parsed)]
           /\ reason' = IF i \in Members(quarantined_records')
                        THEN [reason EXCEPT ![i] = "date"] ELSE reason
    /\ IF i = Len(df)
       THEN pc' = AfterDates(df) /\ i' = 1
       ELSE pc' = pc /\ i' = i + 1
    /\ UNCHANGED <<clean_indices, clean_df, quarantined_df, summary, run,
                   first_clean>>

\* Lines 57-82: one iteration of the loop over the email groups.
ResolveDuplicates ==
    /\ pc = "dups"
    /\ i <= Len(email_groups(df))
    /\ LET lst == indices_list(df, email_groups(df)[i])
           recent_idx == MostRecent(df, quarantined_records, lst, 1, 0)
       IN  IF HasMultipleSignups(lst)
           THEN /\ quarantined_records' =
                       QuarantineOthers(quarantined_records, lst, 1, recent_idx)
                /\ reason' = [k \in 1..Len(df) |->
                                 IF k \in Members(quarantined_records')
                                       \ Members(quarantined_records)
                                 THEN "dup" ELSE reason[k]]
                /\ df' = IF recent_idx # 0
                         THEN [df EXCEPT ![recent_idx].is_multi_plan = TRUE]
                         ELSE df
           ELSE UNCHANGED <<quarantined_records, reason, df>>
    /\ IF i = Len(email_groups(df))
       THEN pc' = "validate" /\ i' = 1
       ELSE pc' = pc /\ i' = i + 1
    /\ UNCHANGED <<clean_indices, clean_df, quarantined_df, summary, run,
                   first_clean>>

\* Lines 86-107: one iteration of the validation loop.
Validate ==
    /\ pc = "validate"
    /\ i <= Len(df)
    /\ LET failure == IF i \in Members(quarantined_records)
                      THEN "" ELSE ValidationFailure(df[i])
       IN  IF failure # ""
           THEN /\ quarantined_records' = Append(quarantined_records, i)
                /\ reason' = [reason EXCEPT ![i] = failure]
           ELSE UNCHANGED <<quarantined_records, reason>>
    /\ IF i = Len(df)
       THEN pc' = "partition" /\ i' = 1
       ELSE pc' = pc /\ i' = i + 1
    /\ UNCHANGED <<df, clean_indices, clean_df, quarantined_df, summary, run,
                   first_clean>>

\* Lines 109-139: the two outputs and the summary.
Partition ==
    /\ pc = "partition"
    /\ clean_indices' = CleanIndices(df, quarantined_records)
    /\ clean_df' = Select(df, clean_indices')
    /\ quarantined_df' = Select(df, quarantined_records)
    /\ summary' = [total_rows |-> Len(df),
                   clean_rows |-> Len(clean_df'),
                   quarantined_rows |-> Len(quarantined_df')]
    /\ pc' = "done"
    /\ UNCHANGED <<df, quarantined_records, reason, i, run, first_clean>>

\* The pipeline is run again on the clean output of the first run: lines
\* 19-36 on a table whose rows are the clean rows.  The output carries two
\* date columns under one name; the run reads one of them.
Rerun ==
    /\ pc = "done"
    /\ run = 1
    /\ \E col \in {"signup_date_orig", "signup_date"} :
           df' = [k \in 1..Len(clean_df) |->
                     Row(clean_df[k].name, clean_df[k].email, clean_df[k][col])]
    /\ first_clean' = clean_df
    /\ run' = 2
    /\ quarantined_records' = <<>>
    /\ reason' = [k \in 1..Len(clean_df) |-> ""]
    /\ pc' = IF clean_df = <<>> THEN "partition" ELSE "dates"
    /\ i' = 1
    /\ clean_indices' = <<>>
    /\ clean_df' = <<>>
    /\ quarantined_df' = <<>>
    /\ summary' = NoSummary

Next ==
    \/ StandardizeDate
    \/ ResolveDuplicates
    \/ Validate
    \/ Partition
    \/ Rerun

Spec == Init /\ [][Next]_vars

----------------------------------------------------------------------------
\* Vocabulary of the properties

\* Number of occurrences of x in a list
Count(lst, x) == Cardinality({ k \in 1..Len(lst) : lst[k] = x })

\* The rows of df holding the raw email value e
Group(e) == { k \in 1..Len(df) : df[k].email = e }

\* The members of a group that the date pass did not quarantine
Live(e) == { k \in Group(e) : reason[k] # "date" }

\* Row a is dated no earlier than row b (standardized dates)
NotBefore(a, b) ==
    ~After(strptime(df[b].signup_date_standardized),
           strptime(df[a].signup_date_standardized))

\* The duplicate pass is over
DuplicatesResolved == pc \in {"validate", "partition", "done"}

\* The validation loop has gone past row k
Validated(k) == pc \in {"partition", "done"} \/ (pc = "validate" /\ k < i)

\* The documented email rule: non-empty after trimming and lowercasing,
\* contains '@', and the part after the first '@' contains '.'
StructurallyValid(cell) ==
    LET email == lower(strip(str(cell)))
        at == find(email, "@", 1)
    IN  /\ email # <<>>
        /\ at # 0
        /\ contains(<<".">>, SubSeq(email, at + 1, Len(email)))

\* The documented name rule: a blocklist word occurs in the name,
\* case-insensitively
Synthetic(cell) ==
    \E w \in test_indicators : contains(w, lower(str(cell)))

\* A text cell is present and not blank
Present(cell) == cell # NaN /\ strip(cell) # <<>>

\* The columns of an output row that the outputs are compared on
Visible(row) ==
    [name |-> row.name, email |-> row.email,
     is_multi_plan |-> row.is_multi_plan, signup_date |-> row.signup_date]

----------------------------------------------------------------------------
\* C1: when the function finishes, every input row is in exactly one of the
\* two outputs, exactly once, and clean_rows + quarantined_rows = total_rows.
C1_ExactlyOneOutput ==
    pc = "done" =>
        /\ \A k \in 1..Len(df) :
               Count(clean_indices, k) + Count(quarantined_records, k) = 1
        /\ Len(clean_df) = Len(clean_indices)
        /\ Len(quarantined_df) = Len(quarantined_records)
        /\ summary.total_rows = Len(df)
        /\ summary.clean_rows = Len(clean_df)
        /\ summary.quarantined_rows = Len(quarantined_df)
        /\ summary.clean_rows + summary.quarantined_rows = summary.total_rows

C1_Witness ==
    /\ pc = "done" /\ run = 1
    /\ clean_df # <<>>
    /\ \E k \in 1..Len(df) : reason[k] \in {"date", "dup"}

\* C2: the email check of the validation pass quarantines a row it examines
\* if and only if the email breaks the documented rule; a@b.c is not
\* quarantined by it.
C2_EmailCheckIff ==
    \A k \in 1..Len(df) :
        (Validated(k) /\ reason[k] \notin {"date", "dup"}) =>
            (reason[k] = "email" <=> ~StructurallyValid(df[k].email))

\* C3: two rows sharing a structurally valid email, with real names and two
\* different parseable dates: the clean output is the later row, flagged
\* multi-plan, and the earlier row is in the quarantined output.
C3_LaterRowSurvives ==
    (/\ pc = "done" /\ run = 1
     /\ Len(df) = 2
     /\ df[1].email = df[2].email
     /\ StructurallyValid(df[1].email)
     /\ \A k \in 1..2 : Present(df[k].name) /\ ~Synthetic(df[k].name)
     /\ \A k \in 1..2 : to_datetime(df[k].signup_date) # NaT
     /\ to_datetime(df[1].signup_date) # to_datetime(df[2].signup_date))
    => LET later == IF After(to_datetime(df[2].signup_date),
                             to_datetime(df[1].signup_date)) THEN 2 ELSE 1
           earlier == 3 - later
       IN  /\ clean_indices = <<later>>
           /\ clean_df[1].is_multi_plan
           /\ earlier \in Members(quarantined_records)

\* C4: after the duplicate pass, an email value held by two or more rows
\* that survived the date pass has exactly one flagged row in its group,
\* that row has the latest date among the survivors of the date pass, and
\* every other row of the group is quarantined.
C4_OneSurvivorPerGroup ==
    DuplicatesResolved =>
        \A e \in Emails \ {NaN} :
            Cardinality(Live(e)) >= 2 =>
                \E s \in Live(e) :
                    /\ df[s].is_multi_plan
                    /\ \A k \in Group(e) \ {s} : ~df[k].is_multi_plan
                    /\ \A k \in Live(e) : NotBefore(s, k)
                    /\ \A k \in Group(e) \ {s} :
                           k \in Members(quarantined_records)

C4_Witness ==
    /\ pc = "validate" /\ i = 1 /\ run = 1
    /\ \E e \in Emails \ {NaN} :
           /\ Cardinality(Live(e)) >= 2
           /\ \E a, b \in Live(e) : ~NotBefore(a, b)

\* C5 as stated: in the final outputs every flagged row is clean, its group
\* had more than one row, it is the only flagged row of its group, and no
\* quarantined row is flagged.
C5_FlagOnlyOnClean ==
    pc = "done" =>
        /\ \A k \in 1..Len(df) :
               df[k].is_multi_plan =>
                   /\ k \in Members(clean_indices)
                   /\ Cardinality(Group(df[k].email)) > 1
                   /\ \A j \in Group(df[k].email) \ {k} : ~df[j].is_multi_plan
        /\ \A k \in 1..Len(quarantined_df) : ~quarantined_df[k].is_multi_plan

\* C5 amended: in the final outputs every flagged row is the survivor of
\* the duplicate pass (neither the date pass nor the duplicate pass
\* quarantined it), its group had more than one row and it is the only
\* flagged row of its group; it is in the clean output unless the validation
\* pass quarantined it, and then the quarantined output carries the flag.
C5_FlagOnlyOnSurvivor ==
    pc = "done" =>
        /\ \A k \in 1..Len(df) :
               df[k].is_multi_plan =>
                   /\ reason[k] \notin {"date", "dup"}
                   /\ Cardinality(Group(df[k].email)) > 1
                   /\ \A j \in Group(df[k].email) \ {k} : ~df[j].is_multi_plan
                   /\ (k \in Members(clean_indices) <=> reason[k] = "")
        /\ \A k \in 1..Len(quarantined_df) :
               quarantined_df[k].is_multi_plan =>
                   reason[quarantined_records[k]] \in {"email", "name", "missing"}

C5_Witness ==
    /\ pc = "done" /\ run = 1
    /\ \E k \in 1..Len(quarantined_df) :
           /\ quarantined_df[k].is_multi_plan
           /\ reason[quarantined_records[k]] = "name"

\* C6: every row of the clean output has a standardized date, an email that
\* satisfies the documented rule, a name without a blocklist word, and a
\* name and an email that are present and not blank.
C6_CleanRowsAreValid ==
    pc = "done" =>
        \A k \in 1..Len(clean_df) :
            /\ clean_df[k].signup_date # None
            /\ clean_df[k].signup_date.fmt = "iso"
            /\ StructurallyValid(clean_df[k].email)
            /\ ~Synthetic(clean_df[k].name)
            /\ Present(clean_df[k].name)
            /\ Present(clean_df[k].email)

C6_Witness ==
    /\ pc = "done" /\ run = 1
    /\ \E k \in 1..Len(clean_df) :
           /\ clean_df[k].signup_date_orig.fmt = "us"
           /\ clean_df[k].email # lower(strip(clean_df[k].email))

C8_SyntheticNameQuarantined ==
    pc = "done" =>
        \A k \in 1..Len(df) :
            Synthetic(df[k].name) =>
                /\ Count(quarantined_records, k) = 1
                /\ k \notin Members(clean_indices)
                /\ \E j \in 1..Len(quarantined_df) :
                       /\ quarantined_records[j] = k
                       /\ quarantined_df[j].name = df[k].name

C8_Witness ==
    /\ pc = "done" /\ run = 1
    /\ \E k \in 1..Len(df) :
           /\ Synthetic(df[k].name)
           /\ reason[k] = "name"
           /\ to_datetime(df[k].signup_date) # NaT

\* C9: within a run no step removes a row from the quarantine list; a row
\* whose date does not parse is quarantined by the date pass, is never the
\* flagged survivor of its group, is left alone by the validation pass and
\* is in the quarantined output.
C9_DateFailureStays ==
    \A k \in 1..Len(df) :
        (to_datetime(df[k].signup_date) = NaT /\ (pc # "dates" \/ k < i)) =>
            /\ Count(quarantined_records, k) = 1
            /\ reason[k] = "date"
            /\ ~df[k].is_multi_plan
            /\ pc = "done" =>
                   /\ k \notin Members(clean_indices)
                   /\ \E j \in 1..Len(quarantined_df) :
                          /\ quarantined_records[j] = k
                          /\ quarantined_df[j].signup_date = None

C9_QuarantineOnlyGrows ==
    /\ [][run' = run =>
              /\ Len(quarantined_records') >= Len(quarantined_records)
              /\ SubSeq(quarantined_records', 1, Len(quarantined_records))
                     = quarantined_records]_vars
    /\ []C9_DateFailureStays

C9_Witness ==
    /\ pc = "done" /\ run = 1
    /\ \E k \in 1..Len(df) :
           /\ reason[k] = "date"
           /\ \E j \in Group(df[k].email) \ {k} : df[j].is_multi_plan

\* The survivors of the date pass that hold the latest date of their group
Tied(e) == { k \in Live(e) : \A j \in Live(e) : NotBefore(k, j) }

\* The smallest member of a non-empty set of row labels
First(S) == CHOOSE k \in S : \A j \in S : k <= j

\* C10: when two or more survivors of the date pass share the latest date
\* of their group, the duplicate pass keeps the first of them in row order
\* and quarantines the other tied rows.
C10_TieKeepsFirst ==
    DuplicatesResolved =>
        \A e \in Emails \ {NaN} :
            Cardinality(Tied(e)) >= 2 =>
                /\ df[First(Tied(e))].is_multi_plan
                /\ reason[First(Tied(e))] \notin {"date", "dup"}
                /\ \A k \in Tied(e) \ {First(Tied(e))} :
                       reason[k] = "dup" /\ ~df[k].is_multi_plan

C10_Witness ==
    /\ pc = "validate" /\ i = 1 /\ run = 1
    /\ \E e \in Emails \ {NaN} :
           /\ Cardinality(Tied(e)) >= 2
           /\ df[First(Tied(e))].is_multi_plan

====
